---- MODULE Spec2Model ----
(***************************************************************************)
(* A model of the Swiggy bill scraper: the ledger synchronizer             *)
(* (upload_gsheet.py, push_df_to_gsheet) and the extraction loop           *)
(* (swiggy_scraper.py, main).                                              *)
(*                                                                         *)
(* A DataFrame is a record [cols, rows]: cols is the sequence of column    *)
(* names and rows the sequence of rows, each a sequence of cells aligned   *)
(* with cols.  A worksheet is a grid: a sequence of rows of cells, row 1   *)
(* and column 1 first, as the remote protocol addresses them.  Cells are   *)
(* strings; NaN stands for pandas' missing value (NaN / None).             *)
(***************************************************************************)
EXTENDS Integers, Sequences, FiniteSets, TLC

VARIABLES
    \* ---- the remote store (gspread) ----
    sheet,          \* TRUE when the spreadsheet google_sheet_name exists
    ws,             \* "absent" | "present": the worksheet worksheet_name
    grid,           \* the worksheet's cells
    dims,           \* <<rows, cols>> the worksheet was created with
    \* ---- one call of push_df_to_gsheet ----
    spc,            \* where the call stands
    df,             \* the local variable df
    update_existing,
    chunk_index,
    err,            \* the exception that left the call ("none" when none)
    \* ---- history of the call, for the properties ----
    in_df,          \* the df the call was given
    pre,            \* [ws, data]: the worksheet when the call started
    prev,           \* the call before, when it returned: what it was given
    creates,        \* the outcome of each add_worksheet of this call
    writes,         \* <<first row, last row>> of each batch_update made
    rows_left,      \* rows the callers may still hand over
    \* ---- one run of main ----
    pc,             \* where main stands
    num_orders,
    i,
    order_data,
    amount,
    order_id,
    date_part,      \* Unbound while the local name is not bound
    full_text,      \* the text of the date container, as characters
    screenshot_path,
    drive_link,
    \* ---- history of the run, for the properties ----
    visited,        \* the indices whose entry point was activated
    captures,       \* <<index, path>> of each screenshot taken
    uploads,        \* the indices handed to upload_to_drive
    skipped,        \* the indices whose marker check failed
    aborted,        \* "no" | the way the loop was left early
    sync_calls,     \* the [rows, update_existing] handed to push_df_to_gsheet
    closed          \* the browser context is closed

storeVars == <<sheet, ws, grid, dims>>
callVars  == <<spc, df, update_existing, chunk_index, err>>
callHist  == <<in_df, pre, prev, creates, writes>>
runVars   == <<pc, num_orders, i, order_data, amount, order_id, date_part, full_text,
               screenshot_path, drive_link>>
runHist   == <<visited, captures, uploads, skipped, aborted, sync_calls, closed>>
vars      == <<storeVars, callVars, callHist, rows_left, runVars, runHist>>

---------------------------------------------------------------------------
(* Bounds of the model *)

\* rows handed to push_df_to_gsheet, over all the calls of a behaviour
MaxRows == 4
\* full batches of the chunked write
MaxChunks == 3
\* entry points on the order list
MaxOrders == 2
\* characters of the date text after the phrase
MaxName == 56


---------------------------------------------------------------------------
(* Values *)

NaN == "<NaN>"
Unbound == "<unbound>"
Unknown == "Unknown"

Schema == <<"order_id", "date", "drive_link", "amount">>

Max(S) == CHOOSE x \in S : \A y \in S : y <= x
Min(S) == CHOOSE x \in S : \A y \in S : x <= y

Range(s) == {s[k] : k \in DOMAIN s}

\* list.index: the first position of x in s
IndexOf(s, x) == Min({k \in DOMAIN s : s[k] = x})

\* math.ceil(a / b) for a >= 0, b > 0
Ceil(a, b) == (a + b - 1) \div b

---------------------------------------------------------------------------
(* Python strings: a text read from the page is a sequence of characters *)

Upper == <<"A", "B", "C", "D", "E", "F", "G", "H", "I", "J", "K", "L", "M",
           "N", "O", "P", "Q", "R", "S", "T", "U", "V", "W", "X", "Y", "Z">>
Lower == <<"a", "b", "c", "d", "e", "f", "g", "h", "i", "j", "k", "l", "m",
           "n", "o", "p", "q", "r", "s", "t", "u", "v", "w", "x", "y", "z">>

ToLower(c) == IF c \in Range(Upper) THEN Lower[IndexOf(Upper, c)] ELSE c

Whitespace == {" ", "\t", "\n", "\r"}

\* the str the characters spell
RECURSIVE Join(_)
Join(t) == IF t = <<>> THEN "" ELSE Head(t) \o Join(Tail(t))

\* t[k:] starts with p (k from 1)
StartsAt(t, p, k) ==
    /\ k + Len(p) - 1 <= Len(t)
    /\ \A j \in 1..Len(p) : t[k + j - 1] = p[j]

\* the same, ignoring case (re.IGNORECASE)
StartsAtNoCase(t, p, k) ==
    /\ k + Len(p) - 1 <= Len(t)
    /\ \A j \in 1..Len(p) : ToLower(t[k + j - 1]) = ToLower(p[j])

\* str.replace(old, new) for a non-empty old
RECURSIVE Replace(_, _, _)
Replace(t, old, new) ==
    IF t = <<>> THEN <<>>
    ELSE IF StartsAt(t, old, 1)
         THEN new \o Replace(SubSeq(t, Len(old) + 1, Len(t)), old, new)
         ELSE <<Head(t)>> \o Replace(Tail(t), old, new)

\* str.strip()
Strip(t) ==
    LET keep == {k \in DOMAIN t : t[k] \notin Whitespace}
    IN  IF keep = {} THEN <<>> ELSE SubSeq(t, Min(keep), Max(keep))

\* str.splitlines()[0] of a non-empty text
FirstLine(t) ==
    LET ends == {k \in DOMAIN t : t[k] \in {"\n", "\r"}}
    IN  IF ends = {} THEN t ELSE SubSeq(t, 1, Min(ends) - 1)

\* the characters of t from the first one that is no whitespace
RECURSIVE SkipSpace(_)
SkipSpace(t) ==
    IF t # <<>> /\ Head(t) \in Whitespace THEN SkipSpace(Tail(t)) ELSE t

DeliveredOn == <<"d", "e", "l", "i", "v", "e", "r", "e", "d", " ", "o", "n">>

\* line 213: re.sub(r'delivered on\s*', '', t, flags=re.IGNORECASE)
RECURSIVE ReSubDeliveredOn(_)
ReSubDeliveredOn(t) ==
    IF t = <<>> THEN <<>>
    ELSE IF StartsAtNoCase(t, DeliveredOn, 1)
         THEN ReSubDeliveredOn(
                  SkipSpace(SubSeq(t, Len(DeliveredOn) + 1, Len(t))))
         ELSE <<Head(t)>> \o ReSubDeliveredOn(Tail(t))

---------------------------------------------------------------------------
(* pandas *)

\* pd.DataFrame(rows) for rows of the row schema (line 271: the columns are
\* the keys of the dicts of lines 241-246, in their order)
Frame(rows) == [cols |-> Schema, rows |-> rows]

\* pd.DataFrame([]): no row and no column
EmptyFrame == [cols |-> <<>>, rows |-> <<>>]

\* df.fillna("", inplace=True)
Fillna(d) ==
    [d EXCEPT !.rows = [r \in DOMAIN d.rows |->
        [c \in DOMAIN d.rows[r] |->
            IF d.rows[r][c] = NaN THEN "" ELSE d.rows[r][c]]]]

\* df[name]: the cells of the column called name
Column(d, name) ==
    [r \in DOMAIN d.rows |-> d.rows[r][IndexOf(d.cols, name)]]

\* pd.concat([a, b], ignore_index=True): the union of the columns, a's
\* first, then b's new ones in b's order; a's rows, then b's; a cell a
\* frame has no column for is NaN
Concat(a, b) ==
    LET extra == SelectSeq(b.cols, LAMBDA c : c \notin Range(a.cols))
        cols  == a.cols \o extra
        Remap(d, row) ==
            [k \in DOMAIN cols |->
                IF cols[k] \in Range(d.cols)
                THEN row[IndexOf(d.cols, cols[k])] ELSE NaN]
    IN  [cols |-> cols,
         rows |-> [r \in DOMAIN a.rows |-> Remap(a, a.rows[r])]
                  \o [r \in DOMAIN b.rows |-> Remap(b, b.rows[r])]]

---------------------------------------------------------------------------
(* gspread *)

\* the last non-empty cell of a row (0 when none)
RowWidth(row) == Max({0} \cup {c \in DOMAIN row : row[c] # ""})

\* worksheet.get_all_values(): the cells up to the last non-empty row and
\* column, every row filled to the same width with ""
get_all_values(g) ==
    LET n == Max({0} \cup {r \in DOMAIN g : RowWidth(g[r]) > 0})
        w == Max({0} \cup {RowWidth(g[r]) : r \in 1..n})
    IN  [r \in 1..n |-> [c \in 1..w |->
            IF c <= Len(g[r]) THEN g[r][c] ELSE ""]]

\* worksheet.batch_update(requests) for the requests lines 138-143 build
\* from a chunk: enumerate(chunk, start=first) gives the k-th row of the
\* chunk (from 0) the row address first + k, and its j-th cell (from 0) the
\* column address j + 1.  A None value leaves the cell as it is.
batch_update(g, first, chunk) ==
    LET last == first + Len(chunk) - 1
        Old(r, c) == IF r <= Len(g) /\ c <= Len(g[r]) THEN g[r][c] ELSE ""
        Cell(r, c) ==
            IF r >= first /\ r <= last /\ c <= Len(chunk[r - first + 1])
               /\ chunk[r - first + 1][(c - 1) + 1] # NaN
            THEN chunk[r - first + 1][(c - 1) + 1]
            ELSE Old(r, c)
        Width(r) ==
            Max({IF r <= Len(g) THEN Len(g[r]) ELSE 0,
                 IF r >= first /\ r <= last
                 THEN Len(chunk[r - first + 1]) ELSE 0})
    IN  [r \in 1..Max({Len(g), last}) |-> [c \in 1..Width(r) |-> Cell(r, c)]]

---------------------------------------------------------------------------
(* push_df_to_gsheet: the merge of lines 78-100 *)

\* existing_df = pd.DataFrame(existing_data[1:], columns=existing_data[0])
ExistingDf(existing_data) ==
    [cols |-> existing_data[1], rows |-> Tail(existing_data)]

\* line 90 raises KeyError when df has no column called as the existing
\* table's first column
MergeRaises(existing_data, d) ==
    /\ Len(existing_data) > 0
    /\ Len(ExistingDf(existing_data).rows) > 0
    /\ Len(d.rows) > 0
    /\ ExistingDf(existing_data).cols[1] \notin Range(d.cols)

\* a merge that removes no row of the existing table
Merge_KeepAll(existing_data, d) ==
    IF Len(existing_data) > 0
    THEN LET existing_df == ExistingDf(existing_data)
         IN  IF Len(existing_df.rows) > 0 /\ Len(d.rows) > 0
             THEN Concat(existing_df, d)
             ELSE d
    ELSE d

\* lines 80-100: the df to write, given what get_all_values returned
Merge(existing_data, d) ==
    IF Len(existing_data) > 0
    THEN LET existing_df == ExistingDf(existing_data)
         IN  IF Len(existing_df.rows) > 0 /\ Len(d.rows) > 0
             THEN LET first_col      == existing_df.cols[1]
                      existing_keys  == Range(Column(existing_df, first_col))
                      new_keys       == Range(Column(d, first_col))
                      keys_to_remove == existing_keys \cap new_keys
                      kept == [existing_df EXCEPT !.rows =
                                 SelectSeq(existing_df.rows,
                                     LAMBDA row :
                                         row[IndexOf(existing_df.cols, first_col)]
                                             \notin keys_to_remove)]
                  IN  IF Len(kept.rows) > 0 THEN Concat(kept, d) ELSE d
             ELSE d
    ELSE d

\* lines 115-120: columns_data = [columns_list] + data_to_upload
columns_data(d) == <<d.cols>> \o d.rows

batch_size == 3500

start_row == 1

\* line 125
num_chunks(d) == Ceil(Len(columns_data(d)), batch_size)

\* chunk offsets that count from one
chunk_start_offset_FromOne(k) == k * batch_size + 1

\* lines 129-133
chunk_start_offset(k) == k * batch_size
chunk_end_offset(d, k) ==
    Min({chunk_start_offset(k) + batch_size, Len(columns_data(d))})
current_chunk_data(d, k) ==
    SubSeq(columns_data(d), chunk_start_offset(k) + 1, chunk_end_offset(d, k))

---------------------------------------------------------------------------
(* push_df_to_gsheet: the call, one action per remote call *)

\* the call is left by an exception
Raise(e) ==
    /\ spc' = "failed"
    /\ err' = e

\* the rows of the table a worksheet shows (nothing when it is absent)
TableOf(w, g) == IF w = "present" THEN get_all_values(g) ELSE <<>>

\* no call came before, or it raised
NoPrev ==
    [ok |-> FALSE, df |-> EmptyFrame,
     update_existing |-> FALSE, fresh |-> FALSE]

\* line 12, lines 27-28: the call starts
Enter(d, upd) ==
    /\ df' = Fillna(d)
    /\ update_existing' = upd
    /\ chunk_index' = 0
    /\ err' = "none"
    /\ spc' = "open"
    /\ in_df' = d
    /\ pre' = [ws |-> ws, data |-> TableOf(ws, grid)]
    /\ prev' = IF spc = "done"
               THEN [ok |-> TRUE, df |-> in_df,
                     update_existing |-> update_existing,
                     fresh |-> pre.ws = "absent"]
               ELSE NoPrev
    /\ creates' = <<>>
    /\ writes' = <<>>

\* lines 35-42: client.open, and client.create + share when not found
OpenSheet ==
    /\ spc = "open"
    /\ \/ /\ sheet
          /\ spc' = "lookup"
          /\ UNCHANGED <<sheet, err>>
       \/ /\ ~sheet
          /\ sheet' = TRUE
          /\ spc' = "lookup"
          /\ UNCHANGED err
       \/ /\ Raise("APIError")
          /\ UNCHANGED sheet
       \/ /\ ~sheet                    \* created, and sheet.share raised
          /\ sheet' = TRUE
          /\ Raise("APIError")
    /\ UNCHANGED <<ws, grid, dims, df, update_existing, chunk_index>>
    /\ UNCHANGED <<callHist, rows_left, runVars, runHist>>

\* lines 56-59, 75-77, 107-109: sheet.worksheet(worksheet_name)
Lookup ==
    /\ spc = "lookup"
    /\ \/ /\ ws = "present"
          /\ spc' = IF ~update_existing THEN "delete" ELSE "read"
          /\ UNCHANGED err
       \/ /\ ws = "absent"
          /\ spc' = "addnew"
          /\ UNCHANGED err
       \/ Raise("APIError")
    /\ UNCHANGED <<storeVars, df, update_existing, chunk_index>>
    /\ UNCHANGED <<callHist, rows_left, runVars, runHist>>

\* a replace branch that keeps the worksheet and writes over it
Delete_WriteOver ==
    /\ spc = "delete"
    /\ \/ /\ spc' = "write"
          /\ UNCHANGED <<ws, grid, dims, err>>
       \/ /\ Raise("APIError")
          /\ UNCHANGED <<ws, grid, dims>>
    /\ UNCHANGED <<sheet, df, update_existing, chunk_index>>
    /\ UNCHANGED <<callHist, rows_left, runVars, runHist>>

\* lines 60-62: sheet.del_worksheet(worksheet)
Delete ==
    /\ spc = "delete"
    /\ \/ /\ ws' = "absent"
          /\ grid' = <<>>
          /\ dims' = <<0, 0>>
          /\ spc' = "add"
          /\ UNCHANGED err
       \/ /\ Raise("APIError")
          /\ UNCHANGED <<ws, grid, dims>>
    /\ UNCHANGED <<sheet, df, update_existing, chunk_index>>
    /\ UNCHANGED <<callHist, rows_left, runVars, runHist>>

\* the arguments of add_worksheet: rows=initial_df_rows + 10,
\* cols=initial_df_cols + 1 (line 51: the shape of df as given)
AddDims(d) == <<Len(d.rows) + 10, Len(d.cols) + 1>>

\* sheet.add_worksheet succeeds
Created ==
    /\ ws' = "present"
    /\ grid' = <<>>
    /\ dims' = AddDims(in_df)
    /\ spc' = "write"
    /\ UNCHANGED err

\* lines 63-73: the first add_worksheet after the delete
Add ==
    /\ spc = "add"
    /\ \/ /\ Created
          /\ creates' = Append(creates, "ok")
       \/ /\ spc' = "retry"             \* APIError with status 409
          /\ creates' = Append(creates, "409")
          /\ UNCHANGED <<ws, grid, dims, err>>
       \/ /\ Raise("APIError")          \* any other APIError: raise
          /\ creates' = Append(creates, "error")
          /\ UNCHANGED <<ws, grid, dims>>
    /\ UNCHANGED <<sheet, df, update_existing, chunk_index>>
    /\ UNCHANGED <<in_df, pre, prev, writes, rows_left, runVars, runHist>>

\* a retry that tries again after each conflict
Retry_Again ==
    /\ spc = "retry"
    /\ \/ /\ Created
          /\ creates' = Append(creates, "ok")
       \/ /\ creates' = Append(creates, "409")
          /\ UNCHANGED <<ws, grid, dims, spc, err>>
       \/ /\ creates' = Append(creates, "error")
          /\ Raise("APIError")
          /\ UNCHANGED <<ws, grid, dims>>
    /\ UNCHANGED <<sheet, df, update_existing, chunk_index>>
    /\ UNCHANGED <<in_df, pre, prev, writes, rows_left, runVars, runHist>>

\* lines 68-71: time.sleep(5), then the second add_worksheet, outside any
\* try: whatever it raises leaves the call
Retry ==
    /\ spc = "retry"
    /\ \/ /\ Created
          /\ creates' = Append(creates, "ok")
       \/ /\ \E e \in {"409", "error"} : creates' = Append(creates, e)
          /\ Raise("APIError")
          /\ UNCHANGED <<ws, grid, dims>>
    /\ UNCHANGED <<sheet, df, update_existing, chunk_index>>
    /\ UNCHANGED <<in_df, pre, prev, writes, rows_left, runVars, runHist>>

\* lines 107-111: the worksheet was not found; the add_worksheet of
\* line 110 is in no try
AddNew ==
    /\ spc = "addnew"
    /\ \/ /\ Created
          /\ creates' = Append(creates, "ok")
       \/ /\ \E e \in {"409", "error"} : creates' = Append(creates, e)
          /\ Raise("APIError")
          /\ UNCHANGED <<ws, grid, dims>>
    /\ UNCHANGED <<sheet, df, update_existing, chunk_index>>
    /\ UNCHANGED <<in_df, pre, prev, writes, rows_left, runVars, runHist>>

\* lines 78-100: worksheet.get_all_values() and the merge
Read ==
    /\ spc = "read"
    /\ \/ /\ Raise("APIError")                    \* line 78 raised
          /\ UNCHANGED df
       \/ /\ ~MergeRaises(get_all_values(grid), df)
          /\ df' = Merge(get_all_values(grid), df)
          /\ spc' = "clear"
          /\ UNCHANGED err
       \/ /\ MergeRaises(get_all_values(grid), df)
          /\ Raise("KeyError")
          /\ UNCHANGED df
    /\ UNCHANGED <<storeVars, update_existing, chunk_index>>
    /\ UNCHANGED <<callHist, rows_left, runVars, runHist>>

\* lines 102-105: worksheet.clear()
Clear ==
    /\ spc = "clear"
    /\ \/ /\ grid' = <<>>
          /\ spc' = "write"
          /\ UNCHANGED err
       \/ /\ Raise("APIError")
          /\ UNCHANGED grid
    /\ UNCHANGED <<sheet, ws, dims, df, update_existing, chunk_index>>
    /\ UNCHANGED <<callHist, rows_left, runVars, runHist>>

\* a chunk loop that puts the table back as it was found when a write fails
Write_Rollback ==
    /\ spc = "write"
    /\ chunk_index < num_chunks(df)
    /\ LET chunk == current_chunk_data(df, chunk_index)
           first == start_row + chunk_start_offset(chunk_index)
       IN  IF \E k \in DOMAIN chunk : Len(chunk[k]) > 0
           THEN \/ /\ grid' = batch_update(grid, first, chunk)
                   /\ writes' = Append(writes, <<first, first + Len(chunk) - 1>>)
                   /\ chunk_index' = chunk_index + 1
                   /\ UNCHANGED <<spc, err>>
                \/ /\ Raise("APIError")
                   /\ grid' = pre.data
                   /\ UNCHANGED <<writes, chunk_index>>
           ELSE /\ chunk_index' = chunk_index + 1
                /\ UNCHANGED <<grid, writes, spc, err>>
    /\ UNCHANGED <<sheet, ws, dims, df, update_existing>>
    /\ UNCHANGED <<in_df, pre, prev, creates, rows_left, runVars, runHist>>

\* lines 128-147: one turn of the chunk loop; line 145 makes the remote
\* call only when the chunk holds a cell
Write ==
    /\ spc = "write"
    /\ chunk_index < num_chunks(df)
    /\ LET chunk == current_chunk_data(df, chunk_index)
           first == start_row + chunk_start_offset(chunk_index)
       IN  IF \E k \in DOMAIN chunk : Len(chunk[k]) > 0
           THEN \/ /\ grid' = batch_update(grid, first, chunk)
                   /\ writes' = Append(writes, <<first, first + Len(chunk) - 1>>)
                   /\ chunk_index' = chunk_index + 1
                   /\ UNCHANGED <<spc, err>>
                \/ /\ Raise("APIError")
                   /\ UNCHANGED <<grid, writes, chunk_index>>
           ELSE /\ chunk_index' = chunk_index + 1
                /\ UNCHANGED <<grid, writes, spc, err>>
    /\ UNCHANGED <<sheet, ws, dims, df, update_existing>>
    /\ UNCHANGED <<in_df, pre, prev, creates, rows_left, runVars, runHist>>

\* line 149: return sheet.url
Return ==
    /\ spc = "write"
    /\ chunk_index = num_chunks(df)
    /\ spc' = "done"
    /\ UNCHANGED <<storeVars, df, update_existing, chunk_index, err>>
    /\ UNCHANGED <<callHist, rows_left, runVars, runHist>>

\* what push_df_to_gsheet does to the store, step by step
Step ==
    \/ OpenSheet
    \/ Lookup
    \/ Delete
    \/ Add
    \/ Retry
    \/ AddNew
    \/ Read
    \/ Clear
    \/ Write
    \/ Return

---------------------------------------------------------------------------
(* swiggy_scraper.py: what the page shows *)

None == "<None>"

BILLS_DIRECTORY == "./bills"

\* the detail view of the k-th order (k from 1): the texts of div._1Hjkp,
\* div.rupee and div._2kNey
OrderPrefix == <<"O", "r", "d", "e", "r", " ", "#">>
OrderIdText(k) == OrderPrefix \o <<ToString(k)>>
AmountText(k) == <<ToString(k), "0">>
DateText(k) ==
    <<"D", "e", "l", "i", "v", "e", "r", "e", "d", " ", "o", "n", " ", "M", "o", "n", ",", " ">> \o <<ToString(k)>>
        \o <<" ", "J", "a", "n">>

\* the texts the date container may hold for the k-th order: its date, or
\* the phrase alone
DateTexts(k) == {DateText(k), <<"D", "e", "l", "i", "v", "e", "r", "e", "d", " ", "o", "n", " ">>}

\* line 175: the default name
DefaultPath(idx) == "swiggy_order_details_" \o ToString(idx + 1) \o ".png"

\* line 213
DatePartOf(text) == Strip(ReSubDeliveredOn(FirstLine(text)))

\* line 217
Sanitize(part) ==
    Replace(Replace(Replace(part, <<",">>, <<>>), <<" ">>, <<"_">>),
            <<":">>, <<"_">>)

\* lines 215-225 raise ValueError
DateInvalid(part) ==
    \/ part = <<>>
    \/ Len(Sanitize(part)) > 50
    \/ Strip(Sanitize(part)) = <<>>

\* line 222: os.path.join(BILLS_DIRECTORY, f"{sanitized_date[4:]}.png")
DatedPath(part) ==
    BILLS_DIRECTORY \o "/"
        \o Join(SubSeq(Sanitize(part), 5, Len(Sanitize(part)))) \o ".png"

\* lines 241-246: the row appended for an upload that returned link
RowOf(oid, part, link, amt) ==
    << IF oid # None /\ oid # "" THEN oid ELSE Unknown,
       IF part # Unbound /\ part # "" THEN part ELSE Unknown,
       link,
       IF amt # None /\ amt # "" THEN amt ELSE Unknown >>

\* the link upload_to_drive returns for the capture of the order at idx
LinkOf(idx) == "L" \o ToString(idx + 1)

---------------------------------------------------------------------------
(* swiggy_scraper.py: main, one action per page or remote call *)

\* lines 262-263: an exception leaves the try of line 106
Abort(how) ==
    /\ aborted' = how
    /\ pc' = "finally"

\* lines 76-96: the executable is missing or the browser does not start:
\* main returns before the try of line 106
Launch ==
    /\ pc = "launch"
    /\ pc' \in {"navigate", "exit"}
    /\ UNCHANGED <<num_orders, i, order_data, amount, order_id, date_part, full_text,
                   screenshot_path, drive_link>>
    /\ UNCHANGED <<runHist, storeVars, callVars, callHist, rows_left>>

\* lines 106-120: goto, wait_for_url, wait_for_load_state
Navigate ==
    /\ pc = "navigate"
    /\ \/ /\ pc' = "loadmore"
          /\ UNCHANGED aborted
       \/ Abort("navigate")
    /\ UNCHANGED <<num_orders, i, order_data, amount, order_id, date_part, full_text,
                   screenshot_path, drive_link>>
    /\ UNCHANGED <<visited, captures, uploads, skipped, sync_calls, closed>>
    /\ UNCHANGED <<storeVars, callVars, callHist, rows_left>>

\* lines 123-128: "Show More Orders" was clicked and the page went idle
LoadMore ==
    /\ pc = "loadmore"
    /\ UNCHANGED vars

\* lines 129-131: the click (or the wait after it) raised: break
LoadDone ==
    /\ pc = "loadmore"
    /\ pc' = "count"
    /\ UNCHANGED <<num_orders, i, order_data, amount, order_id, date_part, full_text,
                   screenshot_path, drive_link>>
    /\ UNCHANGED <<runHist, storeVars, callVars, callHist, rows_left>>

\* lines 134-138: the entry points are counted once; range(num_orders)
Count ==
    /\ pc = "count"
    /\ \/ \E n \in 0..MaxOrders :
              /\ num_orders' = n
              /\ i' = 0
              /\ pc' = IF n > 0 THEN "overlay" ELSE "finally"
              /\ UNCHANGED aborted
       \/ /\ Abort("count")
          /\ UNCHANGED <<num_orders, i>>
    /\ UNCHANGED <<order_data, amount, order_id, date_part, full_text, screenshot_path,
                   drive_link>>
    /\ UNCHANGED <<visited, captures, uploads, skipped, sync_calls, closed>>
    /\ UNCHANGED <<storeVars, callVars, callHist, rows_left>>

\* lines 139-150: the overlay is closed when there is one; whatever the
\* calls raise is passed over
Overlay ==
    /\ pc = "overlay"
    /\ pc' = "resolve"
    /\ UNCHANGED <<num_orders, i, order_data, amount, order_id, date_part, full_text,
                   screenshot_path, drive_link>>
    /\ UNCHANGED <<runHist, storeVars, callVars, callHist, rows_left>>

\* lines 152-155: the entry points are resolved again
Resolve ==
    /\ pc = "resolve"
    /\ \/ \E n \in 0..MaxOrders :
              IF i >= n
              THEN Abort("break")
              ELSE pc' = "click" /\ UNCHANGED aborted
       \/ Abort("resolve")
    /\ UNCHANGED <<num_orders, i, order_data, amount, order_id, date_part, full_text,
                   screenshot_path, drive_link>>
    /\ UNCHANGED <<visited, captures, uploads, skipped, sync_calls, closed>>
    /\ UNCHANGED <<storeVars, callVars, callHist, rows_left>>

\* lines 157-166: entry point i is activated
Click ==
    /\ pc = "click"
    /\ \/ /\ visited' = Append(visited, i)
          /\ pc' = "marker"
          /\ UNCHANGED aborted
       \/ /\ Abort("click")
          /\ UNCHANGED visited
    /\ UNCHANGED <<num_orders, i, order_data, amount, order_id, date_part, full_text,
                   screenshot_path, drive_link>>
    /\ UNCHANGED <<captures, uploads, skipped, sync_calls, closed>>
    /\ UNCHANGED <<storeVars, callVars, callHist, rows_left>>

\* a marker wait whose timeout is passed over
Marker_NoFilter ==
    /\ pc = "marker"
    /\ screenshot_path' = DefaultPath(i)
    /\ amount' = None
    /\ order_id' = None
    /\ pc' = "amount"
    /\ \/ UNCHANGED skipped
       \/ skipped' = skipped \cup {i}
    /\ UNCHANGED <<num_orders, i, order_data, date_part, full_text, drive_link>>
    /\ UNCHANGED <<visited, captures, uploads, aborted, sync_calls, closed>>
    /\ UNCHANGED <<storeVars, callVars, callHist, rows_left>>

\* lines 168-177 and 250-252: the delivery-location marker is waited for
Marker ==
    /\ pc = "marker"
    /\ \/ /\ screenshot_path' = DefaultPath(i)
          /\ amount' = None
          /\ order_id' = None
          /\ pc' = "amount"
          /\ UNCHANGED skipped
       \/ /\ skipped' = skipped \cup {i}
          /\ pc' = "dismiss"
          /\ UNCHANGED <<screenshot_path, amount, order_id>>
    /\ UNCHANGED <<num_orders, i, order_data, date_part, full_text, drive_link>>
    /\ UNCHANGED <<visited, captures, uploads, aborted, sync_calls, closed>>
    /\ UNCHANGED <<storeVars, callVars, callHist, rows_left>>

\* lines 179-188: the amount; a hidden element or an exception leaves None
Amount ==
    /\ pc = "amount"
    /\ amount' \in {Join(AmountText(i + 1)), None}
    /\ pc' = "orderid"
    /\ UNCHANGED <<num_orders, i, order_data, order_id, date_part, full_text,
                   screenshot_path, drive_link>>
    /\ UNCHANGED <<runHist, storeVars, callVars, callHist, rows_left>>

\* an order id whose failed extraction gives the order up
OrderId_Fatal ==
    /\ pc = "orderid"
    /\ \/ /\ order_id' =
                 Join(Strip(Replace(OrderIdText(i + 1), OrderPrefix, <<>>)))
          /\ pc' = "date"
       \/ /\ order_id' = None
          /\ pc' = "dismiss"
    /\ UNCHANGED <<num_orders, i, order_data, amount, date_part,
                   full_text, screenshot_path, drive_link>>
    /\ UNCHANGED <<runHist, storeVars, callVars, callHist, rows_left>>

\* lines 190-201: the order id
OrderId ==
    /\ pc = "orderid"
    /\ order_id' \in
           {Join(Strip(Replace(OrderIdText(i + 1), OrderPrefix, <<>>))),
            None}
    /\ pc' = "date"
    /\ UNCHANGED <<num_orders, i, order_data, amount, date_part, full_text,
                   screenshot_path, drive_link>>
    /\ UNCHANGED <<runHist, storeVars, callVars, callHist, rows_left>>

\* lines 208-225 for the text the date container gave: an empty text has
\* no first line (IndexError at line 210), and a ValueError of lines 220 or
\* 225 leaves the default name
DateFrom(text) ==
    /\ full_text' = text
    /\ IF text = <<>>
       THEN UNCHANGED <<date_part, screenshot_path>>
       ELSE LET part == DatePartOf(text)
            IN  /\ date_part' = Join(part)
                /\ screenshot_path' =
                       IF DateInvalid(part) THEN screenshot_path
                       ELSE DatedPath(part)

\* lines 203-227: the delivery date and the name of the capture, for a date
\* container holding one of texts
DateStep(texts) ==
    /\ pc = "date"
    /\ \/ \E text \in texts : DateFrom(text)
       \/ UNCHANGED <<date_part, full_text, screenshot_path>>   \* lines 206-208 raised
    /\ pc' = "screenshot"
    /\ UNCHANGED <<num_orders, i, order_data, amount, order_id, drive_link>>
    /\ UNCHANGED <<runHist, storeVars, callVars, callHist, rows_left>>

Date == DateStep(DateTexts(i + 1))

\* a capture whose failure leaves the loop
Screenshot_Fatal ==
    /\ pc = "screenshot"
    /\ \/ /\ captures' = Append(captures, <<i, screenshot_path>>)
          /\ pc' = "upload"
          /\ UNCHANGED aborted
       \/ /\ Abort("screenshot")
          /\ UNCHANGED captures
    /\ UNCHANGED <<num_orders, i, order_data, amount, order_id, date_part,
                   full_text, screenshot_path, drive_link>>
    /\ UNCHANGED <<visited, uploads, skipped, sync_calls, closed>>
    /\ UNCHANGED <<storeVars, callVars, callHist, rows_left>>

\* line 229: page.screenshot; an exception is caught by line 250
Screenshot ==
    /\ pc = "screenshot"
    /\ \/ /\ captures' = Append(captures, <<i, screenshot_path>>)
          /\ pc' = "upload"
       \/ /\ pc' = "dismiss"
          /\ UNCHANGED captures
    /\ UNCHANGED <<num_orders, i, order_data, amount, order_id, date_part, full_text,
                   screenshot_path, drive_link>>
    /\ UNCHANGED <<visited, uploads, skipped, aborted, sync_calls, closed>>
    /\ UNCHANGED <<storeVars, callVars, callHist, rows_left>>

\* an upload whose failure still appends a row, without a link
Upload_RowAnyway ==
    /\ pc = "upload"
    /\ uploads' = Append(uploads, i)
    /\ \/ /\ drive_link' = LinkOf(i)
          /\ order_data' =
                 Append(order_data, RowOf(order_id, date_part, LinkOf(i), amount))
       \/ /\ drive_link' = None
          /\ order_data' =
                 Append(order_data, RowOf(order_id, date_part, None, amount))
    /\ pc' = "dismiss"
    /\ UNCHANGED <<num_orders, i, amount, order_id, date_part, full_text,
                   screenshot_path>>
    /\ UNCHANGED <<visited, captures, skipped, aborted, sync_calls, closed>>
    /\ UNCHANGED <<storeVars, callVars, callHist, rows_left>>

\* lines 232-248: upload_to_drive returns a link or None (lines 29-62), and
\* a row is appended for a link
Upload ==
    /\ pc = "upload"
    /\ uploads' = Append(uploads, i)
    /\ \/ /\ drive_link' = LinkOf(i)
          /\ order_data' =
                 Append(order_data, RowOf(order_id, date_part, LinkOf(i), amount))
       \/ /\ drive_link' = None
          /\ UNCHANGED order_data
    /\ pc' = "dismiss"
    /\ UNCHANGED <<num_orders, i, amount, order_id, date_part, full_text,
                   screenshot_path>>
    /\ UNCHANGED <<visited, captures, skipped, aborted, sync_calls, closed>>
    /\ UNCHANGED <<storeVars, callVars, callHist, rows_left>>

\* lines 254-256: the click that leaves the detail view
Dismiss ==
    /\ pc = "dismiss"
    /\ \/ /\ pc' = "reload"
          /\ UNCHANGED aborted
       \/ Abort("dismiss")
    /\ UNCHANGED <<num_orders, i, order_data, amount, order_id, date_part, full_text,
                   screenshot_path, drive_link>>
    /\ UNCHANGED <<visited, captures, uploads, skipped, sync_calls, closed>>
    /\ UNCHANGED <<storeVars, callVars, callHist, rows_left>>

\* a loop that goes round without taking the next index
Reload_Stay ==
    /\ pc = "reload"
    /\ \/ /\ pc' = "overlay"
          /\ UNCHANGED aborted
       \/ Abort("reload")
    /\ UNCHANGED <<num_orders, i, order_data, amount, order_id, date_part,
                   full_text, screenshot_path, drive_link>>
    /\ UNCHANGED <<visited, captures, uploads, skipped, sync_calls, closed>>
    /\ UNCHANGED <<storeVars, callVars, callHist, rows_left>>

\* lines 258-260 and 138: the list is waited for, then the next index
Reload ==
    /\ pc = "reload"
    /\ \/ /\ i' = i + 1
          /\ pc' = IF i + 1 < num_orders THEN "overlay" ELSE "finally"
          /\ UNCHANGED aborted
       \/ /\ Abort("reload")
          /\ UNCHANGED i
    /\ UNCHANGED <<num_orders, order_data, amount, order_id, date_part, full_text,
                   screenshot_path, drive_link>>
    /\ UNCHANGED <<visited, captures, uploads, skipped, sync_calls, closed>>
    /\ UNCHANGED <<storeVars, callVars, callHist, rows_left>>

\* a finally step that hands the rows over only after a complete loop
Finally_SkipOnAbort ==
    /\ pc = "finally"
    /\ IF order_data # <<>> /\ aborted = "no"
       THEN /\ Enter(Frame(order_data), TRUE)
            /\ sync_calls' = Append(sync_calls,
                   [rows |-> order_data, update_existing |-> TRUE])
            /\ pc' = "sync"
       ELSE /\ pc' = "close"
            /\ UNCHANGED <<callVars, callHist, sync_calls>>
    /\ UNCHANGED <<num_orders, i, order_data, amount, order_id, date_part, full_text,
                   screenshot_path, drive_link>>
    /\ UNCHANGED <<visited, captures, uploads, skipped, aborted, closed>>
    /\ UNCHANGED <<storeVars, rows_left>>

\* a finally step that calls push_df_to_gsheet whatever the list holds
Finally_Always ==
    /\ pc = "finally"
    /\ Enter(Frame(order_data), TRUE)
    /\ sync_calls' = Append(sync_calls,
           [rows |-> order_data, update_existing |-> TRUE])
    /\ pc' = "sync"
    /\ UNCHANGED <<num_orders, i, order_data, amount, order_id, date_part,
                   full_text, screenshot_path, drive_link>>
    /\ UNCHANGED <<visited, captures, uploads, skipped, aborted, closed>>
    /\ UNCHANGED <<storeVars, rows_left>>

\* lines 265-279 and 283-284: the rows, when there are any, are handed to
\* push_df_to_gsheet with update_existing=True
Finally ==
    /\ pc = "finally"
    /\ IF order_data # <<>>
       THEN /\ Enter(Frame(order_data), TRUE)
            /\ sync_calls' = Append(sync_calls,
                   [rows |-> order_data, update_existing |-> TRUE])
            /\ pc' = "sync"
       ELSE /\ pc' = "close"
            /\ UNCHANGED <<callVars, callHist, sync_calls>>
    /\ UNCHANGED <<num_orders, i, order_data, amount, order_id, date_part, full_text,
                   screenshot_path, drive_link>>
    /\ UNCHANGED <<visited, captures, uploads, skipped, aborted, closed>>
    /\ UNCHANGED <<storeVars, rows_left>>

\* a finally block that goes on only when push_df_to_gsheet returned
Synced_OnlyDone ==
    /\ pc = "sync"
    /\ spc = "done"
    /\ pc' = "close"
    /\ UNCHANGED <<num_orders, i, order_data, amount, order_id, date_part, full_text,
                   screenshot_path, drive_link>>
    /\ UNCHANGED <<runHist, storeVars, callVars, callHist, rows_left>>

\* lines 280-282: push_df_to_gsheet returned, or raised and was caught
Synced ==
    /\ pc = "sync"
    /\ spc \in {"done", "failed"}
    /\ pc' = "close"
    /\ UNCHANGED <<num_orders, i, order_data, amount, order_id, date_part, full_text,
                   screenshot_path, drive_link>>
    /\ UNCHANGED <<runHist, storeVars, callVars, callHist, rows_left>>

\* line 286: context.close()
Close ==
    /\ pc = "close"
    /\ closed' = TRUE
    /\ pc' = "exit"
    /\ UNCHANGED <<num_orders, i, order_data, amount, order_id, date_part, full_text,
                   screenshot_path, drive_link>>
    /\ UNCHANGED <<visited, captures, uploads, skipped, aborted, sync_calls>>
    /\ UNCHANGED <<storeVars, callVars, callHist, rows_left>>

---------------------------------------------------------------------------
(* The states a run or a call starts from *)

\* the rows a caller may hand over: two versions of order 1, and a row with
\* no identifier and a missing amount
RowDomain ==
    { <<"1", "D", "L", "7">>,
      <<"1", Unknown, "L", "7">>,
      <<Unknown, "D", "L", NaN>> }

Batches(n) == UNION {[1..k -> RowDomain] : k \in 0..n}

\* the frames a caller may hand over: the batches under the row schema, and
\* the frame with no column
Frames(n) == {Frame(rows) : rows \in Batches(n)} \cup {EmptyFrame}

\* what the store may hold before the first call: no spreadsheet, no
\* worksheet, an empty worksheet, and worksheets somebody else filled under
\* another header (one whose first column the row schema has, one whose
\* first column it has not)
SeedStores ==
    { [sheet |-> FALSE, ws |-> "absent", grid |-> <<>>],
      [sheet |-> TRUE, ws |-> "absent", grid |-> <<>>],
      [sheet |-> TRUE, ws |-> "present", grid |-> <<>>],
      [sheet |-> TRUE, ws |-> "present",
       grid |-> << <<"date", "note">>, <<Unknown, "n">> >>],
      [sheet |-> TRUE, ws |-> "present",
       grid |-> << <<"id", "date">>, <<"1", "D">> >>] }

InitStore ==
    \E s \in SeedStores :
        /\ sheet = s.sheet
        /\ ws = s.ws
        /\ grid = s.grid
        /\ dims = IF s.ws = "present" THEN <<1000, 26>> ELSE <<0, 0>>

\* no call of push_df_to_gsheet has been made
InitCall ==
    /\ spc = "idle"
    /\ df = Frame(<<>>)
    /\ update_existing = FALSE
    /\ chunk_index = 0
    /\ err = "none"
    /\ in_df = Frame(<<>>)
    /\ pre = [ws |-> "absent", data |-> <<>>]
    /\ prev = NoPrev
    /\ creates = <<>>
    /\ writes = <<>>

\* main is not running
NoRun ==
    /\ pc = "none"
    /\ num_orders = 0
    /\ i = 0
    /\ order_data = <<>>
    /\ amount = None
    /\ order_id = None
    /\ date_part = Unbound
    /\ full_text = <<>>
    /\ screenshot_path = ""
    /\ drive_link = None
    /\ visited = <<>>
    /\ captures = <<>>
    /\ uploads = <<>>
    /\ skipped = {}
    /\ aborted = "no"
    /\ sync_calls = <<>>
    /\ closed = FALSE

---------------------------------------------------------------------------
(* The synchronizer alone: any caller, any batch, either merge mode *)

Call ==
    /\ pc = "none"
    /\ spc \in {"idle", "done", "failed"}
    /\ \E d \in Frames(rows_left), upd \in BOOLEAN :
          /\ Enter(d, upd)
          /\ rows_left' = rows_left - Len(d.rows)
    /\ UNCHANGED <<storeVars, runVars, runHist>>

InitSync == InitStore /\ InitCall /\ NoRun /\ rows_left = MaxRows

NextSync == Call \/ Step

SpecSync == InitSync /\ [][NextSync]_vars

---------------------------------------------------------------------------
(* The chunked write: calls of push_df_to_gsheet with large batches *)

\* m rows of the row schema, each with its own identifier
BigRows(m) == [r \in 1..m |-> <<ToString(r), "D", "L", "7">>]

\* the sizes of the row set (header included) around each multiple of
\* batch_size, up to MaxChunks full batches and one row more
ChunkTotals ==
    {n \in 1..(MaxChunks * batch_size + 1) :
        n = 1 \/ n % batch_size \in {0, 1, batch_size - 1}}

\* a call has just started, on an absent or an empty worksheet
InitChunk ==
    /\ sheet = TRUE
    /\ ws \in {"absent", "present"}
    /\ grid = <<>>
    /\ dims = IF ws = "present" THEN <<1000, 26>> ELSE <<0, 0>>
    /\ in_df \in {Frame(BigRows(n - 1)) : n \in ChunkTotals} \cup {EmptyFrame}
    /\ df = Fillna(in_df)
    /\ update_existing \in BOOLEAN
    /\ chunk_index = 0
    /\ err = "none"
    /\ spc = "open"
    /\ pre = [ws |-> ws, data |-> <<>>]
    /\ prev = NoPrev
    /\ creates = <<>>
    /\ writes = <<>>
    /\ rows_left = 0
    /\ NoRun

SpecChunk == InitChunk /\ [][Step]_vars

---------------------------------------------------------------------------
(* The name of the capture: lines 203-227 on any text of the date container *)

\* n characters, every fourth one c
Body(c, n) == [k \in 1..n |-> IF k % 4 = 0 THEN c ELSE "a"]

\* "Delivered on, Mon, 5 Jan 2024, 10:30"
ExampleDate ==
    <<"D", "e", "l", "i", "v", "e", "r", "e", "d", " ", "o", "n", ",", " ",
      "M", "o", "n", ",", " ", "5", " ", "J", "a", "n", " ", "2", "0", "2",
      "4", ",", " ", "1", "0", ":", "3", "0">>

\* the texts of the date container: the phrase and a body of up to MaxName
\* characters, with commas, spaces or colons in it, the example, and no
\* text at all
RawDates ==
    {<<"D", "e", "l", "i", "v", "e", "r", "e", "d", " ", "o", "n", " ">>
         \o Body(c, n) : c \in {"a", ",", " ", ":"}, n \in 0..MaxName}
        \cup {ExampleDate, <<>>}

\* main stands at line 203 for the first of its orders
InitName ==
    /\ sheet = TRUE
    /\ ws = "absent"
    /\ grid = <<>>
    /\ dims = <<0, 0>>
    /\ InitCall
    /\ rows_left = 0
    /\ pc = "date"
    /\ num_orders = 1
    /\ i = 0
    /\ order_data = <<>>
    /\ amount = None
    /\ order_id = None
    /\ date_part = Unbound
    /\ full_text = <<>>
    /\ screenshot_path = DefaultPath(0)
    /\ drive_link = None
    /\ visited = <<0>>
    /\ captures = <<>>
    /\ uploads = <<>>
    /\ skipped = {}
    /\ aborted = "no"
    /\ sync_calls = <<>>
    /\ closed = FALSE

DateAny == DateStep(RawDates)

SpecName == InitName /\ [][DateAny]_vars

---------------------------------------------------------------------------
(* One run of main against the store *)

\* the store a run may find: as above, or the table an earlier run left
RunStores ==
    SeedStores \cup
    { [sheet |-> TRUE, ws |-> "present",
       grid |-> <<Schema, <<"1", "Mon, 1 Jan", "L1", "10">> >>] }

Init ==
    /\ \E s \in RunStores :
           /\ sheet = s.sheet
           /\ ws = s.ws
           /\ grid = s.grid
           /\ dims = IF s.ws = "present" THEN <<1000, 26>> ELSE <<0, 0>>
    /\ InitCall
    /\ rows_left = 0
    /\ pc = "launch"
    /\ num_orders = 0
    /\ i = 0
    /\ order_data = <<>>
    /\ amount = None
    /\ order_id = None
    /\ date_part = Unbound
    /\ full_text = <<>>
    /\ screenshot_path = ""
    /\ drive_link = None
    /\ visited = <<>>
    /\ captures = <<>>
    /\ uploads = <<>>
    /\ skipped = {}
    /\ aborted = "no"
    /\ sync_calls = <<>>
    /\ closed = FALSE

Loop ==
    \/ Launch
    \/ Navigate
    \/ LoadMore
    \/ LoadDone
    \/ Count
    \/ Overlay
    \/ Resolve
    \/ Click
    \/ Marker
    \/ Amount
    \/ OrderId
    \/ Date
    \/ Screenshot
    \/ Upload
    \/ Dismiss
    \/ Reload
    \/ Finally
    \/ Synced
    \/ Close

\* main calls push_df_to_gsheet with update_existing=True only: the steps
\* of the replace branch (Delete, Add, Retry) are never taken in a run
AppendStep ==
    \/ OpenSheet
    \/ Lookup
    \/ AddNew
    \/ Read
    \/ Clear
    \/ Write
    \/ Return

Next == Loop \/ AppendStep

Spec == Init /\ [][Next]_vars

\* main is one sequential coroutine: every awaited call returns or raises
\* (the click of line 126 within 7 s, the wait of line 260 within 30 s, the
\* other page calls within their default timeout, the requests of
\* push_df_to_gsheet by answering), so a step that can be taken is taken.
\* A successful "Show More Orders" click changes nothing: the fairness
\* condition therefore asks that the click of line 126 at last fails
SpecLive == Spec /\ WF_vars(Next)

---------------------------------------------------------------------------
(* Properties of the synchronizer *)

\* the table as a reader of the worksheet sees it
Table == TableOf(ws, grid)

\* the data rows of a table (the rows after the header)
Data(t) == IF Len(t) > 0 THEN Tail(t) ELSE <<>>

\* the first-column values of some rows
FirstCol(rows) == {rows[r][1] : r \in DOMAIN rows}

\* the cells a row shows under the names cols, in a table headed by header
Proj(header, row, cols) ==
    [j \in DOMAIN cols |-> row[IndexOf(header, cols[j])]]

\* the rows the call was given, missing cells normalised to ""
GivenRows == Fillna(in_df).rows

\* the rows of a sequence whose first cell is k
WithKey(rows, k) == SelectSeq(rows, LAMBDA row : row[1] = k)

\* an append-mode call has returned
AppendDone == spc = "done" /\ update_existing

\* C1: an append-mode call that repeats the call before it, with the same
\* rows, leaves the table exactly as the first call left it
C1_Idempotent ==
    (AppendDone /\ prev.ok /\ prev.update_existing /\ prev.df = in_df)
        => Table = pre.data

\* the repeated batch is not empty and the table also holds older rows
C1_Witness ==
    /\ AppendDone /\ prev.ok /\ prev.update_existing /\ prev.df = in_df
    /\ Len(in_df.rows) >= 1
    /\ Len(pre.data) > 1 + Len(in_df.rows)
    /\ pre.data[1] = Schema

\* C2: for every key the new batch shares with the table, the table after
\* an append-mode synchronization holds the batch's rows for that key and
\* none of the old ones
C2_NewWins ==
    (AppendDone /\ pre.ws = "present")
        => \A k \in FirstCol(Data(pre.data)) \cap FirstCol(GivenRows) :
               /\ Len(Table) > 0
               /\ Range(in_df.cols) \subseteq Range(Table[1])
               /\ [r \in DOMAIN WithKey(Data(Table), k) |->
                      Proj(Table[1], WithKey(Data(Table), k)[r], in_df.cols)]
                  = WithKey(GivenRows, k)

\* C3: R1 then R2, sharing no key, synchronized in append mode into an
\* absent table, leave as data rows the rows of R1 and then the rows of R2
C3_UnionInOrder ==
    (AppendDone /\ prev.ok /\ prev.update_existing /\ prev.fresh
        /\ FirstCol(prev.df.rows) \cap FirstCol(in_df.rows) = {})
        => Data(Table) = Fillna(prev.df).rows \o GivenRows

\* C4: one append-mode synchronization keeps every existing row whose key
\* the batch does not hold, in the order they had, before the batch's rows
C4_SurvivorsKept ==
    (AppendDone /\ pre.ws = "present" /\ Len(pre.data) > 1)
        => LET old  == Data(pre.data)
               kept == SelectSeq(old,
                           LAMBDA row : row[1] \notin FirstCol(GivenRows))
               now  == Data(Table)
               n    == Len(GivenRows)
           IN  /\ Len(now) >= Len(kept) + n
               /\ Range(pre.data[1]) \subseteq Range(Table[1])
               /\ \A j \in DOMAIN kept :
                      Proj(Table[1], now[j], pre.data[1]) = kept[j]
               /\ \A j \in 1..n :
                      Proj(Table[1], now[Len(now) - n + j], in_df.cols)
                          = GivenRows[j]

\* C5: after an append-mode synchronization no two data rows of the table
\* have the same first-column value
C5_UniqueKeys ==
    AppendDone
        => \A a, b \in DOMAIN Data(Table) :
               Data(Table)[a][1] = Data(Table)[b][1] => a = b

\* C6: after a synchronization in either mode, row 1 of the table is the
\* header of the row schema
C6_HeaderIsSchema ==
    spc = "done" => (Len(Table) > 0 /\ Table[1] = Schema)

\* the call took the replace branch: the worksheet was found and
\* update_existing is False
ReplaceFound == ~update_existing /\ pre.ws = "present"

\* C8: in replace mode the found table is deleted and a create attempted;
\* after a 409 exactly one more create is attempted, and its failure leaves
\* the call with no batch written; any other failure of the first create
\* leaves the call at once; no call attempts more than two creates
C8_ConflictRetry ==
    /\ Len(creates) <= 2
    /\ spc \in {"add", "retry"} => (ReplaceFound /\ ws = "absent")
    /\ spc = "add" => creates = <<>>
    /\ spc = "retry" => creates = <<"409">>
    /\ Len(creates) = 2 => (ReplaceFound /\ creates[1] = "409")
    /\ (ReplaceFound /\ Len(creates) >= 1 /\ creates[1] = "409"
            /\ spc # "retry")
           => Len(creates) = 2
    /\ (ReplaceFound /\ Len(creates) >= 1 /\ creates[1] = "error")
           => (creates = <<"error">> /\ spc = "failed"
               /\ err = "APIError" /\ writes = <<>>)
    /\ (Len(creates) = 2 /\ creates[2] # "ok")
           => (spc = "failed" /\ err = "APIError" /\ writes = <<>>)
    /\ (Len(creates) = 2 /\ creates[2] = "ok")
           => spc \in {"write", "done", "failed"}

\* the second create failed too, and the call was left
C8_Witness ==
    /\ ReplaceFound
    /\ creates = <<"409", "409">>
    /\ spc = "failed"

\* C7 as stated: a row set of n rows (header included) is written by
\* ceil(n / 3500) batch_update calls, the k-th covering rows
\* 3500 (k - 1) + 1 to min(3500 k, n): in order, disjoint, covering rows
\* 1..n once; 7001 rows take three calls
C7_Chunks ==
    LET n == Len(columns_data(df))
        lo(k) == 3500 * (k - 1) + 1
        hi(k) == IF 3500 * k < n THEN 3500 * k ELSE n
    IN  /\ spc \in {"write", "done"} =>
               writes = [k \in 1..chunk_index |-> <<lo(k), hi(k)>>]
        /\ spc = "done" =>
               /\ 3500 * Len(writes) >= n
               /\ 3500 * (Len(writes) - 1) < n
               /\ \A r \in 1..n :
                      Cardinality({k \in DOMAIN writes :
                          writes[k][1] <= r /\ r <= writes[k][2]}) = 1
        /\ (spc = "done" /\ n = 7001) =>
               writes = << <<1, 3500>>, <<3501, 7000>>, <<7001, 7001>> >>

\* C7, amended: a row set of n rows (header included) with at least one
\* column is written by ceil(n / 3500) batch_update calls, the k-th covering
\* rows 3500 (k - 1) + 1 to min(3500 k, n): in order, disjoint, covering
\* rows 1..n once, and the table then shows the row set; 7001 rows take
\* three calls; a row set with no column (n = 1) gets no call at all
C7_ChunksWithCells ==
    LET n == Len(columns_data(df))
        lo(k) == 3500 * (k - 1) + 1
        hi(k) == IF 3500 * k < n THEN 3500 * k ELSE n
    IN  /\ (spc \in {"write", "done"} /\ Len(df.cols) > 0) =>
               writes = [k \in 1..chunk_index |-> <<lo(k), hi(k)>>]
        /\ (spc = "done" /\ Len(df.cols) > 0) =>
               /\ 3500 * Len(writes) >= n
               /\ 3500 * (Len(writes) - 1) < n
               /\ \A r \in 1..n :
                      Cardinality({k \in DOMAIN writes :
                          writes[k][1] <= r /\ r <= writes[k][2]}) = 1
               /\ grid = columns_data(df)
        /\ (spc = "done" /\ n = 7001) =>
               writes = << <<1, 3500>>, <<3501, 7000>>, <<7001, 7001>> >>
        /\ (spc \in {"write", "done"} /\ Len(df.cols) = 0) =>
               (n = 1 /\ writes = <<>> /\ grid = <<>>)

\* a row set of 7001 rows was written
C7_Witness ==
    /\ spc = "done"
    /\ Len(columns_data(df)) = 7001
    /\ Len(writes) = 3

---------------------------------------------------------------------------
(* Properties of the extraction loop *)

\* the loop of lines 138-260 is over
LoopOver == pc \in {"finally", "sync", "close", "exit"}

\* main is past the finally step that hands the rows over
PastFinally == pc \in {"sync", "close", "exit"}

\* C9: once the loop is left early (the reload wait failed, entry point i
\* was gone, or another call raised) no further item is processed, the
\* rows collected stay as they are, and they are exactly what
\* push_df_to_gsheet is called with, when there is at least one
C9_AbortKeepsRows ==
    /\ [](aborted # "no" => LoopOver /\ \A k \in Range(visited) : k <= i)
    /\ [][aborted # "no" =>
            /\ visited' = visited
            /\ order_data' = order_data
            /\ i' = i
            /\ aborted' = aborted]_vars
    /\ [][aborted = "no" /\ aborted' # "no" =>
            /\ order_data' = order_data
            /\ visited' = visited]_vars
    /\ []((aborted # "no" /\ PastFinally) =>
            IF order_data # <<>>
            THEN /\ sync_calls =
                        <<[rows |-> order_data, update_existing |-> TRUE]>>
                 /\ in_df = Frame(order_data)
                 /\ update_existing
            ELSE /\ sync_calls = <<>>
                 /\ spc = "idle")

\* the reload wait failed after a row was collected, with items left over,
\* and the rows were handed over
C9_Witness ==
    /\ aborted = "reload"
    /\ i + 1 < num_orders
    /\ Len(order_data) >= 1
    /\ PastFinally
    /\ Len(sync_calls) = 1

\* C10: an item whose marker did not show gets no capture, no upload and no
\* row, and the loop goes on to dismiss its detail view and to the next item
C10_FilterSkips ==
    \A k \in skipped :
        /\ \A c \in DOMAIN captures : captures[c][1] # k
        /\ k \notin Range(uploads)
        /\ \A r \in DOMAIN order_data : order_data[r][3] # LinkOf(k)
        /\ aborted = "no" => \/ i > k
                             \/ i = k /\ pc \in {"dismiss", "reload"}

\* the first item was skipped and the second one gave a row
C10_Witness ==
    /\ 0 \in skipped
    /\ i = 1
    /\ Len(order_data) = 1
    /\ pc = "dismiss"

\* the item a row was appended for, told by the link it carries
RowsOf(k) == SelectSeq(order_data, LAMBDA row : row[3] = LinkOf(k))

\* C11: when upload_to_drive returns no link for an item, its capture has
\* been taken, no row is appended for it, the upload is made once only, and
\* the loop goes on to dismiss the detail view without leaving the loop
C11_UploadFailureDropsRow ==
    /\ [](\A a, b \in DOMAIN uploads : uploads[a] = uploads[b] => a = b)
    /\ [](\A u \in DOMAIN uploads :
              \E c \in DOMAIN captures : captures[c][1] = uploads[u])
    /\ [][(pc = "upload" /\ drive_link' = None) =>
              /\ \E c \in DOMAIN captures : captures[c] = <<i, screenshot_path>>
              /\ uploads' = Append(uploads, i)
              /\ order_data' = order_data
              /\ aborted' = aborted
              /\ i' = i
              /\ pc' = "dismiss"]_vars
    /\ []((pc \in {"dismiss", "reload"} /\ drive_link = None
              /\ i \in Range(uploads)) => RowsOf(i) = <<>>)
    /\ [][\A k \in 0..MaxOrders :
              (k \in Range(uploads) /\ RowsOf(k) = <<>>) => RowsOf(k)' = <<>>]_vars

\* the upload of the first item gave no link, and the second item gave a row
C11_Witness ==
    /\ 0 \in Range(uploads)
    /\ RowsOf(0) = <<>>
    /\ \E c \in DOMAIN captures : captures[c][1] = 0
    /\ i = 1
    /\ RowsOf(1) # <<>>
    /\ aborted = "no"

\* the name C12 describes for a text: the phrase stripped, commas removed,
\* spaces and colons replaced, the first 4 characters dropped
ClaimedName(text) ==
    LET t == Sanitize(DatePartOf(text))
    IN  SubSeq(t, 5, Len(t))

\* C12: the capture is saved under the default name when the name derived
\* from the date text is empty or longer than 50 characters, and under that
\* name, in the output directory, otherwise
C12_FilenameFallback ==
    pc = "screenshot" =>
        LET s == ClaimedName(full_text)
        IN  screenshot_path =
                IF s = <<>> \/ Len(s) > 50
                THEN DefaultPath(i)
                ELSE BILLS_DIRECTORY \o "/" \o Join(s) \o ".png"

\* what a reader sees of rows written to an empty worksheet
Shown(rows) == get_all_values(Fillna([cols |-> <<>>, rows |-> rows]).rows)

C14_OwnDataOnly ==
    \A r \in DOMAIN order_data :
        \E k \in 0..(MaxOrders - 1) :
            /\ order_data[r][3] = LinkOf(k)
            /\ order_data[r][1] \in
                   {Unknown,
                    Join(Strip(Replace(OrderIdText(k + 1), OrderPrefix, <<>>)))}
            /\ order_data[r][2] \in
                   {Unknown} \cup
                       {Join(DatePartOf(t)) : t \in DateTexts(k + 1)}
            /\ order_data[r][4] \in {Unknown, Join(AmountText(k + 1))}

\* the steps of one order whose failure the code passes over
LocalSteps ==
    {"overlay", "marker", "amount", "orderid", "date", "screenshot", "upload"}

\* C15 as stated: within the loop only the wait after the dismissal aborts
\* (the break on a missing entry point is no failure of a call)
C15_OnlyReloadAborts ==
    aborted \in {"no", "navigate", "count", "break", "reload"}

\* C15, amended: a failure of the overlay dismissal, the marker check, a
\* field extraction, the capture or the upload never leaves the loop: the
\* order is carried on to its next step; the loop is left early only by the
\* re-resolution or the activation of the entry point, the click that
\* dismisses the detail view, or the wait for the list after it
C15_LocalFailuresPassed ==
    /\ [][(pc \in LocalSteps) =>
              (/\ aborted' = aborted
               /\ i' = i
               /\ pc' \in (LocalSteps \cup {"resolve", "dismiss"}))]_vars
    /\ [](aborted \in {"no", "navigate", "count", "resolve", "break",
                       "click", "dismiss", "reload"})
    /\ [][(aborted = "no" /\ aborted' # "no") =>
              pc \in {"navigate", "count", "resolve", "click", "dismiss",
                      "reload"}]_vars

\* the capture of the first order failed and the second order is at work
C15_Witness ==
    /\ i = 1
    /\ visited = <<0, 1>>
    /\ 0 \notin skipped
    /\ captures = <<>>
    /\ aborted = "no"
    /\ pc = "marker"

\* C16: after a synchronization with update_existing False the table is
\* the header of the given frame and its rows, in their order, whatever the
\* worksheet held before, and whether it existed or not
C16_ReplaceDiscards ==
    (spc = "done" /\ ~update_existing) =>
        /\ ws = "present"
        /\ Table = Shown(<<in_df.cols>> \o in_df.rows)
        /\ dims = AddDims(in_df)

\* a worksheet holding more rows than the new batch was replaced
C16_Witness ==
    /\ spc = "done"
    /\ ReplaceFound
    /\ Len(in_df.rows) >= 1
    /\ Len(pre.data) > 1 + Len(in_df.rows)
    /\ Len(Table) = 1 + Len(in_df.rows)

\* C17: push_df_to_gsheet is called at most once in a run, in the finally
\* step after the loop and never before; it is called exactly when the
\* list holds a row, with update_existing True and the rows as they were
\* appended; nothing of the run changes after the call starts, and a run
\* without a row makes no call on the store
C17_SyncOnceAfterLoop ==
    /\ [](Len(sync_calls) <= 1)
    /\ [](~PastFinally => (sync_calls = <<>> /\ spc = "idle"))
    /\ [](sync_calls # <<>> =>
              /\ order_data # <<>>
              /\ sync_calls = <<[rows |-> order_data, update_existing |-> TRUE]>>
              /\ in_df = Frame(order_data)
              /\ update_existing)
    /\ []((PastFinally /\ order_data # <<>>) => sync_calls # <<>>)
    /\ [](sync_calls = <<>> => spc = "idle")
    /\ [][sync_calls' = <<>> => UNCHANGED storeVars]_vars
    /\ [][sync_calls # <<>> =>
              (order_data' = order_data /\ visited' = visited /\ i' = i)]_vars

\* a complete run over two orders handed its two rows over and exited
C17_Witness ==
    /\ pc = "exit"
    /\ aborted = "no"
    /\ Len(order_data) = 2
    /\ Len(sync_calls) = 1
    /\ spc = "done"

\* C18: the entry points are activated in the order 0, 1, ..., each once,
\* below the count taken once before the loop; an item has at most one row,
\* the rows stand in the order of their items, a row appended is never
\* changed or removed, and the list holds at most num_orders rows
C18_OrderedVisits ==
    /\ [](visited = [k \in 1..Len(visited) |-> k - 1])
    /\ [](\A k \in Range(visited) : k < num_orders)
    /\ [][pc # "count" => num_orders' = num_orders]_vars
    /\ [](\A k \in 0..MaxOrders :
              /\ Len(RowsOf(k)) <= 1
              /\ RowsOf(k) # <<>> => k \in Range(visited))
    /\ [](\A a, b \in DOMAIN order_data :
              a < b => \E ka, kb \in 0..MaxOrders :
                           /\ ka < kb
                           /\ order_data[a][3] = LinkOf(ka)
                           /\ order_data[b][3] = LinkOf(kb))
    /\ [][/\ Len(order_data') \in {Len(order_data), Len(order_data) + 1}
          /\ SubSeq(order_data', 1, Len(order_data)) = order_data]_vars
    /\ [](Len(order_data) <= num_orders)

\* two entry points were counted and both gave a row
C18_Witness ==
    /\ num_orders = 2
    /\ visited = <<0, 1>>
    /\ Len(order_data) = 2
    /\ pc = "exit"

\* C19: each of the three extractions is followed by the next step of the
\* order whatever it gave, and keeps what the earlier ones gave; the
\* capture is then attempted and, once taken, the upload; an upload that
\* returns a link appends one row, whose identifier or amount is "Unknown"
\* when its extraction gave nothing; a date that was not extracted, or was
\* refused, leaves the capture under the default name
C19_IndependentFields ==
    /\ [][(pc = "amount") => (pc' = "orderid" /\ aborted' = aborted)]_vars
    /\ [][(pc = "orderid") =>
              (pc' = "date" /\ amount' = amount /\ aborted' = aborted)]_vars
    /\ [][(pc = "date") =>
              (/\ pc' = "screenshot"
               /\ amount' = amount
               /\ order_id' = order_id
               /\ aborted' = aborted)]_vars
    /\ [][(/\ pc = "date"
            /\ \/ date_part' = date_part /\ full_text' = full_text
               \/ DateInvalid(DatePartOf(full_text')))
              => screenshot_path' = DefaultPath(i)]_vars
    /\ [][(pc \in {"screenshot", "upload"}) =>
              (/\ amount' = amount
               /\ order_id' = order_id
               /\ date_part' = date_part
               /\ screenshot_path' = screenshot_path)]_vars
    /\ [][(pc = "screenshot" /\ pc' = "upload") =>
              captures' = Append(captures, <<i, screenshot_path>>)]_vars
    /\ [][(pc = "upload") => uploads' = Append(uploads, i)]_vars
    /\ [][(pc = "upload" /\ drive_link' # None) =>
              (/\ Len(order_data') = Len(order_data) + 1
               /\ SubSeq(order_data', 1, Len(order_data)) = order_data
               /\ order_data'[Len(order_data')][1] =
                      (IF order_id = None THEN Unknown ELSE order_id)
               /\ order_data'[Len(order_data')][3] = drive_link'
               /\ order_data'[Len(order_data')][4] =
                      (IF amount = None THEN Unknown ELSE amount))]_vars

\* none of the three extractions of the first order gave a value; its
\* capture was taken under the default name and its row was appended
C19_Witness ==
    /\ order_data = << <<Unknown, Unknown, LinkOf(0), Unknown>> >>
    /\ captures = << <<0, DefaultPath(0)>> >>
    /\ uploads = <<0>>
    /\ pc = "dismiss"

\* C20: once the orders page was detected, a run in which the load-more
\* click at last fails reaches the end of the finally block with the
\* browser context closed, whatever was skipped, failed or aborted on the
\* way; the failed load-more click leads to the count of the entry points
\* and is no abort; past the finally step the rows, when there are any,
\* have been handed to push_df_to_gsheet; the context is closed by the
\* step after the synchronization, whether it returned or raised
C20_BestEffort ==
    /\ (pc = "loadmore") ~> (pc = "exit" /\ closed)
    /\ [][(pc = "loadmore") => (pc' = "count" /\ aborted' = aborted)]_vars
    /\ [](PastFinally /\ order_data # <<>> =>
              sync_calls = <<[rows |-> order_data, update_existing |-> TRUE]>>)
    /\ [][(pc = "sync" /\ pc' # "sync") =>
              (spc \in {"done", "failed"} /\ pc' = "close")]_vars
    /\ [][(pc = "close") => (closed' /\ pc' = "exit")]_vars
    /\ [](closed => pc = "exit")

\* a run that ended with the context closed after an order with no
\* identifier, a skipped order, a failed reload wait and a failed
\* synchronization
C20_Witness ==
    /\ pc = "exit"
    /\ closed
    /\ Len(order_data) = 1
    /\ order_data[1][1] = Unknown
    /\ skipped = {1}
    /\ aborted = "reload"
    /\ spc = "failed"

====
